---- MODULE Spec2Model ----
(***************************************************************************)
(* Model of prepare_dataset.py (Project Gutenberg preprocessing).          *)
(*                                                                         *)
(* Spec       : combine_files, one step per iteration of its file loop,    *)
(*              then the final flush / return / report.                    *)
(* SpecStrip  : remove_gutenberg_boilerplate applied to a text.            *)
(* SpecNorm   : re.sub(r'\n\s*\n', '\n\n', .) applied once and twice.      *)
(*                                                                         *)
(* In Spec an input file is the record of what the opaque collaborators    *)
(* return for it: the outcome of the two open()/read() attempts, the       *)
(* outcome of langdetect.detect on its first 1000 characters, and the      *)
(* two measures the loop takes of its cleaned content,                     *)
(* len(content.strip()) and len(content.encode("utf-8")).                  *)
(***************************************************************************)
EXTENDS Integers, Sequences, FiniteSets, TLC

\* ---------------------------------------------------------------- bounds
MaxFiles  == 4      \* longest file_paths list explored
MaxSizeMb == 2      \* max_size_mb ranges over 0..MaxSizeMb
MaxLines  == 43     \* most lines of a text given to the stripper
MaxWidth  == 3      \* longest line of such a text
MaxLen    == 6      \* longest text given to the normalizer

\* ------------------------------------------------------ program constants
StripThreshold == 15          \* len(lines) <= 15
DropLines_Docstring == 15     \* "removing the first 15 lines"
DropLines      == 40          \* lines[40:]
MinChars       == 100         \* len(content.strip()) < 100
FirstCounter   == 1           \* file_counter = 1
MB             == 1024 * 1024 \* max_size_mb * 1024 * 1024

\* characters of a text: newline, other whitespace, content
NL == "NL"
SP == "SP"
CH == "a"

VARIABLES
    pc,               \* "loop" | "done" | "raised" (an exception left combine_files)
    max_size_mb,      \* argument of combine_files
    idx,              \* number of entries of file_paths consumed by the loop
    cur,              \* the file the last iteration worked on
    current_content,  \* in-progress shard: sequence of documents
    current_size,     \* running byte size of the in-progress shard
    file_counter,     \* shard counter
    language_stats,   \* [en, other]
    written,          \* log of the writes to combined_<n>.txt, in time order
    returned,         \* value returned by combine_files and printed by __main__
    accepted,         \* history: documents that passed both checks, in input order
    cleaned,          \* history: positions of files given to remove_gutenberg_boilerplate
    text,             \* SpecStrip / SpecNorm: the input text
    out,              \* SpecStrip / SpecNorm: the latest result
    prev,             \* SpecNorm: the result before the latest pass
    passes            \* SpecStrip / SpecNorm: number of applications so far

pipeVars == <<pc, max_size_mb, idx, cur, current_content, current_size,
              file_counter, language_stats, written, returned, accepted, cleaned>>
textVars == <<text, out, prev, passes>>
vars     == <<pipeVars, textVars>>

\* ------------------------------------------------------------ input files
Langs == {"en", "fr", "LangDetectException"}

\* (len(content.strip()), len(content.encode("utf-8"))) of the cleaned content
Measures == { <<MinChars - 1, MinChars - 1>>,
              <<MinChars, MinChars>>,
              <<MB \div 2, MB \div 2>>,
              <<MB - MinChars, MB - MinChars>>,
              <<MB, MB>>,
              <<MB + 1, MB + 1>> }

NoFile == [read |-> "none", lang |-> "none", chars |-> 0, bytes |-> 0]

Files == { [read |-> r, lang |-> l, chars |-> m[1], bytes |-> m[2]] :
               r \in {"utf8", "fallback"}, l \in Langs, m \in Measures }
         \cup
         { [read |-> r, lang |-> "none", chars |-> 0, bytes |-> 0] :
               r \in {"oserror", "fallback_error"} }

\* the try/except around the two reads: only UnicodeDecodeError of the
\* first read is caught; the second read is not guarded at all
ReadOk(f) == f.read \in {"utf8", "fallback"}

is_english_wrong_code(f) == f.lang # "fr"

is_english_using_langdetect(f) ==
    IF f.lang = "LangDetectException" THEN FALSE ELSE f.lang = "en"

ExceedsBudget_NoAccum(size, estimated_size, mb) == estimated_size > mb * MB

ExceedsBudget(size, estimated_size, mb) == size + estimated_size > mb * MB

NextCounter_Same(c) == c

NextCounter(c) == c + 1

StartShard_Empty(doc) == << >>

StartShard(doc) == <<doc>>

FinalFlushNeeded_Never(content) == FALSE

FinalFlushNeeded(content) == content # << >>

Shard(n, docs, kind) == [n |-> n, docs |-> docs, kind |-> kind]

\* ----------------------------------------------------------- combine_files
PipeInit ==
    /\ pc = "loop"
    /\ max_size_mb \in 0..MaxSizeMb
    /\ idx = 0
    /\ cur = NoFile
    /\ current_content = << >>
    /\ current_size = 0
    /\ file_counter = FirstCounter
    /\ language_stats = [en |-> 0, other |-> 0]
    /\ written = << >>
    /\ returned = 0
    /\ accepted = << >>
    /\ cleaned = {}

TextIdle ==
    /\ text = << >>
    /\ out = << >>
    /\ prev = << >>
    /\ passes = 0

\* one iteration of "for file_path in file_paths", on the file f
LoopBody(f) ==
    /\ pc = "loop"
    /\ idx < MaxFiles
    /\ idx' = idx + 1
    /\ cur' = f
    /\ UNCHANGED <<max_size_mb, returned, textVars>>
    /\ IF ~ReadOk(f)
       THEN /\ pc' = "raised"
            /\ UNCHANGED <<current_content, current_size, file_counter,
                           language_stats, written, accepted, cleaned>>
       ELSE /\ pc' = pc
            /\ IF ~is_english_using_langdetect(f)
               THEN /\ language_stats' = [language_stats EXCEPT !.other = @ + 1]
                    /\ UNCHANGED <<current_content, current_size, file_counter,
                                   written, accepted, cleaned>>
               ELSE /\ language_stats' = [language_stats EXCEPT !.en = @ + 1]
                    /\ cleaned' = cleaned \cup {idx + 1}
                    /\ IF f.chars < MinChars
                       THEN UNCHANGED <<current_content, current_size,
                                        file_counter, written, accepted>>
                       ELSE LET estimated_size == f.bytes
                                doc == [id |-> idx + 1, bytes |-> estimated_size]
                            IN  /\ accepted' = Append(accepted, doc)
                                /\ IF ExceedsBudget(current_size, estimated_size, max_size_mb)
                                   THEN /\ written' = Append(written,
                                               Shard(file_counter, current_content, "threshold"))
                                        /\ file_counter' = NextCounter(file_counter)
                                        /\ current_content' = StartShard(doc)
                                        /\ current_size' = estimated_size
                                   ELSE /\ current_content' = Append(current_content, doc)
                                        /\ current_size' = current_size + estimated_size
                                        /\ UNCHANGED <<file_counter, written>>

\* after the loop: "if current_content:" flush, print statistics, return
Finish ==
    /\ pc = "loop"
    /\ pc' = "done"
    /\ IF FinalFlushNeeded(current_content)
       THEN written' = Append(written, Shard(file_counter, current_content, "final"))
       ELSE written' = written
    /\ returned' = file_counter
    /\ UNCHANGED <<max_size_mb, idx, cur, current_content, current_size,
                   file_counter, language_stats, accepted, cleaned, textVars>>

Init == PipeInit /\ TextIdle

Next == (\E f \in Files : LoopBody(f)) \/ Finish

Spec == Init /\ [][Next]_vars

\* ------------------------------------------------------- text operations
\* str.split('\n'): the pieces between the separators, at least one piece
RECURSIVE split(_, _)
split(t, sep) ==
    IF \A i \in 1..Len(t) : t[i] # sep
    THEN <<t>>
    ELSE LET i == CHOOSE k \in 1..Len(t) :
                      t[k] = sep /\ \A j \in 1..(k - 1) : t[j] # sep
         IN  <<SubSeq(t, 1, i - 1)>> \o split(SubSeq(t, i + 1, Len(t)), sep)

\* sep.join(lines)
RECURSIVE join(_, _)
join(sep, lines) ==
    IF lines = << >> THEN << >>
    ELSE IF Len(lines) = 1 THEN lines[1]
    ELSE lines[1] \o <<sep>> \o join(sep, Tail(lines))

remove_gutenberg_boilerplate(t) ==
    LET lines == split(t, NL)
    IN  IF Len(lines) <= StripThreshold
        THEN t
        ELSE join(NL, SubSeq(lines, DropLines + 1, Len(lines)))

\* \s of the pattern: newline and every other whitespace character
IsSpace(c) == c \in {NL, SP}

MatchEnd_NoStar(t, i) ==
    IF i + 2 <= Len(t) /\ t[i] = NL /\ IsSpace(t[i + 1]) /\ t[i + 2] = NL
    THEN i + 2
    ELSE 0

\* index of the last character of the match of \n\s*\n that starts at i
\* (greedy: the longest one), 0 when the pattern does not match at i
MatchEnd(t, i) ==
    IF t[i] # NL THEN 0
    ELSE LET ends == { j \in (i + 1)..Len(t) :
                          t[j] = NL /\ \A k \in (i + 1)..(j - 1) : IsSpace(t[k]) }
         IN  IF ends = {} THEN 0
             ELSE CHOOSE j \in ends : \A k \in ends : k <= j

\* re.sub scanning from position i: leftmost matches, left to right,
\* non-overlapping, each replaced by '\n\n'
RECURSIVE sub_from(_, _)
sub_from(t, i) ==
    IF i > Len(t) THEN << >>
    ELSE LET e == MatchEnd(t, i)
         IN  IF e = 0
             THEN <<t[i]>> \o sub_from(t, i + 1)
             ELSE <<NL, NL>> \o sub_from(t, e + 1)

\* re.sub(r'\n\s*\n', '\n\n', content)
normalize_blank_lines(t) == sub_from(t, 1)

\* ------------------------------------------------------------ text inputs
RECURSIVE Repeat(_, _)
Repeat(c, k) == IF k = 0 THEN << >> ELSE <<c>> \o Repeat(c, k - 1)

\* a text of n lines whose line i (from 0) is i % (w+1) content characters
PatternText(n, w) == join(NL, [i \in 1..n |-> Repeat(CH, (i - 1) % (w + 1))])

StripInputs == { PatternText(n, w) : n \in 1..MaxLines, w \in 1..MaxWidth }

RECURSIVE Texts(_)
Texts(k) ==
    IF k = 0 THEN { << >> }
    ELSE LET shorter == Texts(k - 1)
         IN  shorter \cup { Append(t, c) : t \in { u \in shorter : Len(u) = k - 1 },
                                           c \in {NL, SP, CH} }

NormInputs == Texts(MaxLen)

PipeIdle ==
    /\ pc = "idle"
    /\ max_size_mb = 0
    /\ idx = 0
    /\ cur = NoFile
    /\ current_content = << >>
    /\ current_size = 0
    /\ file_counter = FirstCounter
    /\ language_stats = [en |-> 0, other |-> 0]
    /\ written = << >>
    /\ returned = 0
    /\ accepted = << >>
    /\ cleaned = {}

\* ------------------------------------------------------------- SpecStrip
StripInit ==
    /\ PipeIdle
    /\ text \in StripInputs
    /\ out = text
    /\ prev = text
    /\ passes = 0

Strip ==
    /\ passes = 0
    /\ out' = remove_gutenberg_boilerplate(text)
    /\ prev' = out
    /\ passes' = 1
    /\ UNCHANGED <<text, pipeVars>>

StripNext == Strip

SpecStrip == StripInit /\ [][StripNext]_vars

\* -------------------------------------------------------------- SpecNorm
NormInit ==
    /\ PipeIdle
    /\ text \in NormInputs
    /\ out = text
    /\ prev = text
    /\ passes = 0

Normalize ==
    /\ passes < 2
    /\ out' = normalize_blank_lines(out)
    /\ prev' = out
    /\ passes' = passes + 1
    /\ UNCHANGED <<text, pipeVars>>

NormNext == Normalize

SpecNorm == NormInit /\ [][NormNext]_vars

\* ------------------------------------------------------- helpers for claims
RECURSIVE SumBytes(_)
SumBytes(docs) == IF docs = << >> THEN 0 ELSE Head(docs).bytes + SumBytes(Tail(docs))

RECURSIVE ConcatShards(_)
ConcatShards(ws) == IF ws = << >> THEN << >> ELSE Head(ws).docs \o ConcatShards(Tail(ws))

Budget == max_size_mb * 1024 * 1024

FinalWrites == { i \in 1..Len(written) : written[i].kind = "final" }

\* C1: every shard written, by a threshold flush or by the final flush, has
\* a sum of estimated byte sizes of at most max_size_mb*1024*1024, unless it
\* holds exactly one document whose own size exceeds that budget.
C1_ShardWithinBudget ==
    \A i \in 1..Len(written) :
        \/ SumBytes(written[i].docs) <= Budget
        \/ /\ Len(written[i].docs) = 1
           /\ written[i].docs[1].bytes > Budget

\* a shard of several documents that reaches the budget exactly, and a
\* shard that is one oversized document, have both been written
C1_Witness ==
    /\ \E i \in 1..Len(written) :
          Len(written[i].docs) >= 2 /\ SumBytes(written[i].docs) = Budget
    /\ \E i \in 1..Len(written) :
          Len(written[i].docs) = 1 /\ written[i].docs[1].bytes > Budget

\* C2: a shard with zero documents is never written: every file
\* combined_<n>.txt written holds at least one document.
C2_NoEmptyShard ==
    \A i \in 1..Len(written) : written[i].docs # << >>

\* C3: the shard files written are numbered 1..k without gaps, each number
\* is written once and in increasing order, whatever was rejected.
C3_ContiguousNumbers ==
    \A i \in 1..Len(written) : written[i].n = i

\* three shards written in a run that also rejected a file by language
C3_Witness ==
    /\ pc = "done"
    /\ Len(written) >= 3
    /\ language_stats.other >= 1

\* C4: when combine_files finishes, the documents of the written shards,
\* concatenated in counter order, are exactly the accepted documents in
\* input order: none dropped, duplicated or reordered.
C4_OrderPreservingLossless ==
    pc = "done" => ConcatShards(written) = accepted

\* a finished run with three accepted documents spread over two or more
\* shards, and one file skipped in between
C4_Witness ==
    /\ pc = "done"
    /\ Len(accepted) >= 3
    /\ Len(written) >= 2
    /\ idx > Len(accepted)

\* C5: when the last file has been processed and the in-progress shard is
\* non-empty, exactly one more shard file is written, holding the
\* in-progress documents in insertion order; it is written once, after the
\* last document and never before.
C5_FinalFlush ==
    /\ pc = "loop" => FinalWrites = {}
    /\ (pc = "done" /\ current_content # << >>) =>
          /\ FinalWrites = {Len(written)}
          /\ Len(written) = (file_counter - 1) + 1
          /\ written[Len(written)].docs = current_content
          /\ written[Len(written)].n = file_counter

\* a finished run whose final shard holds two documents, after an earlier
\* threshold flush
C5_Witness ==
    /\ pc = "done"
    /\ Len(current_content) >= 2
    /\ Len(written) >= 2
    /\ written[Len(written)].kind = "final"

\* C6: the shard total returned and printed at the end of a run equals the
\* number of shard files written in that run; with no input files it is 0.
C6_ReportedEqualsWritten ==
    pc = "done" => returned = Len(written)

\* C7: a read or decoding failure of one file never aborts the run: no
\* exception leaves combine_files because of it.
C7_ReadFailureNeverAborts ==
    pc # "raised"

\* C8: a file rejected by the language check (the classifier returns a code
\* other than 'en', or raises) adds exactly one to 'other', is not given to
\* boilerplate stripping or the length check, and leaves the in-progress
\* shard, its byte size and the shard counter unchanged.
C8_LanguageRejectFrame ==
    [][ (idx' = idx + 1 /\ cur'.read \in {"utf8", "fallback"} /\ cur'.lang # "en") =>
          /\ language_stats'.other = language_stats.other + 1
          /\ language_stats'.en = language_stats.en
          /\ cleaned' = cleaned
          /\ accepted' = accepted
          /\ current_content' = current_content
          /\ current_size' = current_size
          /\ file_counter' = file_counter
          /\ written' = written ]_vars

\* a file on which the classifier raised has just been rejected while a
\* shard was in progress
C8_Witness ==
    /\ pc = "loop"
    /\ cur.lang = "LangDetectException"
    /\ language_stats.other >= 1
    /\ current_content # << >>
    /\ idx \notin cleaned

NewlineCount(t) == Cardinality({ i \in 1..Len(t) : t[i] = NL })

\* the text after its k-th newline
AfterNewline(t, k) ==
    LET p == CHOOSE i \in 1..Len(t) :
                 t[i] = NL /\ Cardinality({ j \in 1..i : t[j] = NL }) = k
    IN  SubSeq(t, p + 1, Len(t))

\* C9: seen as lines split on newline, a text of at most 15 lines is
\* returned unchanged; a text of more than 15 lines gives exactly the lines
\* from index 40 on joined by newline, so max(0, total_lines - 40) lines are
\* kept and texts of 16 to 40 lines give nothing.
C9_StripMatchesReference ==
    passes = 1 =>
        LET total == NewlineCount(text) + 1
        IN  /\ total <= 15 => out = text
            /\ (total > 15 /\ total <= 40) => out = << >>
            /\ total > 40 =>
                  /\ out = AfterNewline(text, 40)
                  /\ NewlineCount(out) + 1 = total - 40

\* a text of more than 41 lines has been stripped to a non-empty remainder
C9_Witness ==
    /\ pc = "idle"
    /\ passes = 1
    /\ NewlineCount(text) + 1 > 41
    /\ out # << >>
    /\ out # text

\* C10: blank-line normalization is idempotent: replacing each leftmost
\* greedy match of newline, whitespace, newline by two newlines a second
\* time gives the same text as doing it once.
C10_NormalizeIdempotent ==
    passes = 2 => out = prev

\* a text that the first pass shortened has been normalized twice
C10_Witness ==
    /\ pc = "idle"
    /\ passes = 2
    /\ Len(prev) < Len(text)
    /\ \E i \in 1..Len(text) : text[i] = CH

====
